---- MODULE Spec2Model ----
(***************************************************************************)
(* A model of the delete-workflow-runs action (src/index.js, lines 1-300). *)
(*                                                                         *)
(* Strings are sequences of one-character strings, so that splitting,      *)
(* trimming, case folding and substring search are computed and not        *)
(* assumed.  Times are whole hours since an arbitrary epoch; a day is      *)
(* HoursPerDay hours (the code's 86400000 ms), and a run's created_at is   *)
(* held as its time value.  A JavaScript number is a record [nan, val],    *)
(* so that comparisons with NaN are false as in the language.              *)
(***************************************************************************)
EXTENDS Integers, Sequences, FiniteSets, TLC

\* ------------------------------------------------------------------------
\* Bounds of the model
\* ------------------------------------------------------------------------

\* Number of runs the repository holds.
MaxRuns == 3

\* Number of times the clock may advance during one invocation.
MaxTicks == 1

\* ------------------------------------------------------------------------
\* Strings
\* ------------------------------------------------------------------------

UpperChars ==
  <<"A","B","C","D","E","F","G","H","I","J","K","L","M",
    "N","O","P","Q","R","S","T","U","V","W","X","Y","Z">>

LowerChars ==
  <<"a","b","c","d","e","f","g","h","i","j","k","l","m",
    "n","o","p","q","r","s","t","u","v","w","x","y","z">>

toLowerChar(c) ==
  IF \E i \in 1..26 : UpperChars[i] = c
    THEN LowerChars[CHOOSE i \in 1..26 : UpperChars[i] = c]
    ELSE c

toUpperChar(c) ==
  IF \E i \in 1..26 : LowerChars[i] = c
    THEN UpperChars[CHOOSE i \in 1..26 : LowerChars[i] = c]
    ELSE c

toLowerCase(s) == [i \in 1..Len(s) |-> toLowerChar(s[i])]

toUpperCase(s) == [i \in 1..Len(s) |-> toUpperChar(s[i])]

IsSpace(c) == c \in {" ", "\t", "\n"}

RECURSIVE trimStart(_)
trimStart(s) ==
  IF s # <<>> /\ IsSpace(Head(s)) THEN trimStart(Tail(s)) ELSE s

RECURSIVE trimEnd(_)
trimEnd(s) ==
  IF s # <<>> /\ IsSpace(s[Len(s)]) THEN trimEnd(SubSeq(s, 1, Len(s) - 1)) ELSE s

trim(s) == trimEnd(trimStart(s))

\* String.prototype.split with a one-character separator class.
RECURSIVE split(_, _)
split(s, seps) ==
  IF s = <<>> THEN << <<>> >>
  ELSE LET rest == split(Tail(s), seps)
       IN  IF Head(s) \in seps
             THEN << <<>> >> \o rest
             ELSE << <<Head(s)>> \o Head(rest) >> \o Tail(rest)

\* String.prototype.includes
strIncludes(s, p) ==
  \E i \in 0..(Len(s) - Len(p)) : SubSeq(s, i + 1, i + Len(p)) = p

\* Array.prototype.includes
includes(list, x) == \E i \in 1..Len(list) : list[i] = x

\* Array.prototype.map for the two element functions the code maps.
mapTrim(list) == [i \in 1..Len(list) |-> trim(list[i])]

mapLower(list) == [i \in 1..Len(list) |-> toLowerCase(list[i])]

\* Array.prototype.slice(start) and slice(start, end).
sliceIndex(len, k) ==
  IF k < 0 THEN (IF len + k < 0 THEN 0 ELSE len + k)
           ELSE (IF k > len THEN len ELSE k)

slice2(list, start, end) ==
  SubSeq(list, sliceIndex(Len(list), start) + 1, sliceIndex(Len(list), end))

slice1(list, start) == slice2(list, start, Len(list))

\* compareCreated with equal creation times ordered by descending run id.
compareCreated_tiesById(a, b, newestFirst) ==
  IF a.created_at = b.created_at THEN b.id - a.id
  ELSE IF newestFirst THEN b.created_at - a.created_at
  ELSE a.created_at - b.created_at

\* The two comparators the code sorts with: oldest first (a - b) and newest
\* first (b - a) on the creation time.
compareCreated(a, b, newestFirst) ==
  IF newestFirst
    THEN b.created_at - a.created_at
    ELSE a.created_at - b.created_at

\* Array.prototype.sort: stable; an element moves in front of another only
\* when the comparator is negative.
RECURSIVE insertSorted(_, _, _)
insertSorted(sorted, x, newestFirst) ==
  IF sorted = <<>> THEN <<x>>
  ELSE IF compareCreated(x, Head(sorted), newestFirst) < 0
         THEN <<x>> \o sorted
         ELSE <<Head(sorted)>> \o insertSorted(Tail(sorted), x, newestFirst)

RECURSIVE sort(_, _)
sort(list, newestFirst) ==
  IF list = <<>> THEN <<>>
  ELSE insertSorted(sort(SubSeq(list, 1, Len(list) - 1), newestFirst),
                    list[Len(list)], newestFirst)

\* ------------------------------------------------------------------------
\* Numbers and input parsing
\* ------------------------------------------------------------------------

Num(n) == [nan |-> FALSE, val |-> n]

NaN == [nan |-> TRUE, val |-> 0]

Digits == <<"0","1","2","3","4","5","6","7","8","9">>

IsDigit(c) == \E i \in 1..10 : Digits[i] = c

DigitVal(c) == (CHOOSE i \in 1..10 : Digits[i] = c) - 1

RECURSIVE digitsVal(_)
digitsVal(s) ==
  IF s = <<>> THEN 0
  ELSE 10 * digitsVal(SubSeq(s, 1, Len(s) - 1)) + DigitVal(s[Len(s)])

\* Number(string) for decimal integer literals: surrounding white space is
\* dropped, the empty string is 0, anything that is not an optionally
\* signed digit string is NaN.
Number(s) ==
  LET t == trim(s)
      neg == t # <<>> /\ Head(t) = "-"
      body == IF t # <<>> /\ Head(t) \in {"-", "+"} THEN Tail(t) ELSE t
  IN  IF t = <<>> THEN Num(0)
      ELSE IF body # <<>> /\ \A i \in 1..Len(body) : IsDigit(body[i])
             THEN Num(IF neg THEN 0 - digitsVal(body) ELSE digitsVal(body))
             ELSE NaN

\* x > 0 and x <= 0 for a JavaScript number x.
gtZero(x) == ~x.nan /\ x.val > 0

leZero(x) == ~x.nan /\ x.val <= 0

\* input || dflt
orDefault(input, dflt) == IF input = <<>> THEN dflt ELSE input

FalsyValues == << <<"0">>, <<"n","o">>, <<"n">>, <<"f","a","l","s","e">> >>

parseBoolean(input) == ~includes(FalsyValues, toLowerCase(trim(input)))

\* splitPattern without filter(Boolean).
splitPattern_keepEmpty(pattern) == mapTrim(split(pattern, {",", "|"}))

\* Line 25.
splitPattern(pattern) ==
  SelectSeq(mapTrim(split(pattern, {",", "|"})), LAMBDA s : s # <<>>)

\* ------------------------------------------------------------------------
\* Run records and the predicate evaluator
\* ------------------------------------------------------------------------

\* One day, in the model's time unit (86400000 ms).
HoursPerDay == 24

\* null / undefined for a string field, and for created_at.
Null == <<"null">>

NoCreatedAt == -1

\* A created_at that is not a date: a non-empty string whose time value is NaN.
InvalidCreatedAt == -2

\* x ?? d
nullish(x, d) == IF x = Null THEN d ELSE x

Completed == <<"c","o","m","p","l","e","t","e","d">>

\* skipStatus without the status test.
skipStatus_never(run) == FALSE

\* Lines 79-82: only completed runs are considered.
skipStatus(run) == run.status # Completed

\* skipPullRequest without the test of the check_pullrequest_exist option.
skipPullRequest_anyConfig(run, options) == Len(run.pull_requests) > 0

\* Lines 84-87: the run is attached to pull requests.
skipPullRequest(run, options) ==
  options.checkPullRequestExist /\ Len(run.pull_requests) > 0

\* skipBranch with the membership test inverted.
skipBranch_inverted(run, options) ==
  LET headBranch == nullish(run.head_branch, <<>>)
  IN  /\ options.checkBranchExistence
      /\ headBranch # <<>>
      /\ ~includes(options.branchNames, headBranch)

\* Lines 89-93: the run's branch still exists.
skipBranch(run, options) ==
  LET headBranch == nullish(run.head_branch, <<>>)
  IN  /\ options.checkBranchExistence
      /\ headBranch # <<>>
      /\ includes(options.branchNames, headBranch)

\* skipConclusion without lower-casing the run's conclusion.
skipConclusion_caseSensitive(run, options) ==
  LET runConclusion == nullish(run.conclusion, <<>>)
  IN  /\ Len(options.allowedConclusions) > 0
      /\ ~includes(options.allowedConclusions, runConclusion)

\* Lines 95-101: the conclusion is not an allowed one.
skipConclusion(run, options) ==
  LET runConclusion == toLowerCase(nullish(run.conclusion, <<>>))
  IN  /\ Len(options.allowedConclusions) > 0
      /\ ~includes(options.allowedConclusions, runConclusion)

\* skipAge with ageDays <= retainDays.
skipAge_inclusive(run, options, clock) ==
  /\ ~options.skipAgeCheck
  /\ gtZero(options.retainDays)
  /\ \/ run.created_at = NoCreatedAt
     \/ /\ run.created_at # InvalidCreatedAt
        /\ (clock - run.created_at) <= options.retainDays.val * HoursPerDay

\* Lines 103-113: the run has no creation time, or is younger than
\* retainDays days; ageDays < retainDays with both sides in hours.  With a
\* created_at that is not a date ageDays is NaN and the comparison false.
skipAge(run, options, clock) ==
  /\ ~options.skipAgeCheck
  /\ gtZero(options.retainDays)
  /\ \/ run.created_at = NoCreatedAt
     \/ /\ run.created_at # InvalidCreatedAt
        /\ (clock - run.created_at) < options.retainDays.val * HoursPerDay

\* shouldDeleteRun(run, options), with Date.now() = clock.
shouldDeleteRun(run, options, clock) ==
  /\ ~skipStatus(run)
  /\ ~skipPullRequest(run, options)
  /\ ~skipBranch(run, options)
  /\ ~skipConclusion(run, options)
  /\ ~skipAge(run, options, clock)

\* ------------------------------------------------------------------------
\* Retention selection
\* ------------------------------------------------------------------------

\* new Date(created_at).toISOString().split("T")[0]: the UTC calendar date.
dateKey(created_at) == created_at \div HoursPerDay

\* ToIntegerOrInfinity of a slice argument: NaN is 0.
toInteger(x) == IF x.nan THEN 0 ELSE x.val

\* The keys of runsByDate in insertion order.
RECURSIVE dateKeys(_)
dateKeys(runs) ==
  IF runs = <<>> THEN <<>>
  ELSE LET front == dateKeys(SubSeq(runs, 1, Len(runs) - 1))
           key == dateKey(runs[Len(runs)].created_at)
       IN  IF includes(front, key) THEN front ELSE Append(front, key)

\* isExpired without the comparison with the cutoff.
isExpired_noCutoff(run, retainDays, clock) ==
  run.created_at \in {NoCreatedAt, InvalidCreatedAt}

\* Whether the forEach of lines 135-151 puts the run into expiredRuns.
\* cutoffDate is now minus retainDays days; with retainDays NaN it is an
\* invalid date and no comparison with it is true.
isExpired(run, retainDays, clock) ==
  \/ run.created_at \in {NoCreatedAt, InvalidCreatedAt}
  \/ /\ ~retainDays.nan
     /\ run.created_at < clock - retainDays.val * HoursPerDay

\* sortBucket with the comparator of the global strategy (oldest first).
sortBucket_oldestFirst(dateRuns) == sort(dateRuns, FALSE)

\* Line 155: a day's runs, newest first.
sortBucket(dateRuns) == sort(dateRuns, TRUE)

\* Lines 154-160: what the buckets, in insertion order, add to runsToRetain
\* (retained) or to runsToDelete.
RECURSIVE concatBuckets(_, _, _, _)
concatBuckets(keys, fresh, keepMinimumRuns, retained) ==
  IF keys = <<>> THEN <<>>
  ELSE LET dateRuns == sortBucket(SelectSeq(fresh, LAMBDA r : dateKey(r.created_at) = Head(keys)))
           part == IF retained
                     THEN slice2(dateRuns, 0, toInteger(keepMinimumRuns))
                     ELSE slice1(dateRuns, toInteger(keepMinimumRuns))
       IN  part \o concatBuckets(Tail(keys), fresh, keepMinimumRuns, retained)

\* filterRunsByDailyRetention leaving runs without a usable created_at out
\* of both lists.
filterRunsByDailyRetention_dropsUndated(runs, keepMinimumRuns, retainDays, clock) ==
  IF leZero(keepMinimumRuns) \/ leZero(retainDays)
    THEN [runsToDelete |-> runs, runsToRetain |-> <<>>]
    ELSE LET dated == SelectSeq(runs, LAMBDA r : r.created_at \notin {NoCreatedAt, InvalidCreatedAt})
             expiredRuns == SelectSeq(dated, LAMBDA r : isExpired(r, retainDays, clock))
             fresh == SelectSeq(dated, LAMBDA r : ~isExpired(r, retainDays, clock))
             keys == dateKeys(fresh)
         IN  [runsToDelete |-> expiredRuns \o concatBuckets(keys, fresh, keepMinimumRuns, FALSE),
              runsToRetain |-> concatBuckets(keys, fresh, keepMinimumRuns, TRUE)]

\* Lines 123-162.
filterRunsByDailyRetention(runs, keepMinimumRuns, retainDays, clock) ==
  IF leZero(keepMinimumRuns) \/ leZero(retainDays)
    THEN [runsToDelete |-> runs, runsToRetain |-> <<>>]
    ELSE LET expiredRuns == SelectSeq(runs, LAMBDA r : isExpired(r, retainDays, clock))
             fresh == SelectSeq(runs, LAMBDA r : ~isExpired(r, retainDays, clock))
             keys == dateKeys(fresh)
         IN  [runsToDelete |-> expiredRuns \o concatBuckets(keys, fresh, keepMinimumRuns, FALSE),
              runsToRetain |-> concatBuckets(keys, fresh, keepMinimumRuns, TRUE)]

\* globalRetention with the comparator of the sort reversed.
globalRetention_newestFirst(candidates, keepMinimumRuns) ==
  LET sorted == sort(candidates, TRUE)
      runsToRetain == IF gtZero(keepMinimumRuns)
                        THEN slice1(sorted, 0 - keepMinimumRuns.val)
                        ELSE <<>>
  IN  [runsToRetain |-> runsToRetain,
       runsToDelete |-> IF gtZero(keepMinimumRuns)
                          THEN slice2(sorted, 0, Len(sorted) - Len(runsToRetain))
                          ELSE sorted]

\* globalRetention with the delete list cut at length - keepMinimumRuns.
globalRetention_lengthMinusKeep(candidates, keepMinimumRuns) ==
  LET sorted == sort(candidates, FALSE)
      runsToRetain == IF gtZero(keepMinimumRuns)
                        THEN slice1(sorted, 0 - keepMinimumRuns.val)
                        ELSE <<>>
  IN  [runsToRetain |-> runsToRetain,
       runsToDelete |-> IF gtZero(keepMinimumRuns)
                          THEN slice2(sorted, 0, Len(sorted) - keepMinimumRuns.val)
                          ELSE sorted]

\* globalRetention without the keepMinimumRuns > 0 guards: slice(-0) is the
\* whole list.
globalRetention_unguarded(candidates, keepMinimumRuns) ==
  LET sorted == sort(candidates, FALSE)
      runsToRetain == slice1(sorted, 0 - toInteger(keepMinimumRuns))
  IN  [runsToRetain |-> runsToRetain,
       runsToDelete |-> slice2(sorted, 0, Len(sorted) - Len(runsToRetain))]

\* globalRetention deleting no more than the oldest candidate at a time.
globalRetention_oneAtATime(candidates, keepMinimumRuns) ==
  LET sorted == sort(candidates, FALSE)
      runsToRetain == IF gtZero(keepMinimumRuns)
                        THEN slice1(sorted, 0 - keepMinimumRuns.val)
                        ELSE <<>>
  IN  [runsToRetain |-> runsToRetain,
       runsToDelete |-> slice2(slice2(sorted, 0, Len(sorted) - Len(runsToRetain)), 0, 1)]

\* Lines 280-282: the global strategy.  The sort is in place, so the delete
\* list of the keep_minimum_runs <= 0 branch is the sorted list.
globalRetention(candidates, keepMinimumRuns) ==
  LET sorted == sort(candidates, FALSE)
      runsToRetain == IF gtZero(keepMinimumRuns)
                        THEN slice1(sorted, 0 - keepMinimumRuns.val)
                        ELSE <<>>
  IN  [runsToRetain |-> runsToRetain,
       runsToDelete |-> IF gtZero(keepMinimumRuns)
                          THEN slice2(sorted, 0, Len(sorted) - Len(runsToRetain))
                          ELSE sorted]

\* ------------------------------------------------------------------------
\* Workflow filter
\* ------------------------------------------------------------------------

WorkflowsDir ==
  <<".","g","i","t","h","u","b","/","w","o","r","k","f","l","o","w","s","/">>

All == <<"A","L","L">>

\* path.replace(/^\.github\/workflows\//, "")
stripWorkflowsDir(path) ==
  IF Len(path) >= Len(WorkflowsDir) /\ SubSeq(path, 1, Len(WorkflowsDir)) = WorkflowsDir
    THEN SubSeq(path, Len(WorkflowsDir) + 1, Len(path))
    ELSE path

\* matchesPattern without the filename test.
matchesPattern_nameOnly(workflow, patterns) ==
  \E i \in 1..Len(patterns) :
    strIncludes(toLowerCase(nullish(workflow.name, <<>>)), patterns[i])

\* Lines 233-241: the name / filename test of one workflow.
matchesPattern(workflow, patterns) ==
  LET filename == stripWorkflowsDir(nullish(workflow.path, <<>>))
      nameLower == toLowerCase(nullish(workflow.name, <<>>))
      filenameLower == toLowerCase(filename)
  IN  \E i \in 1..Len(patterns) :
        strIncludes(nameLower, patterns[i]) \/ strIncludes(filenameLower, patterns[i])

\* Lines 228-243.
filterByPattern(workflows, deleteWorkflowPattern) ==
  LET patterns == mapLower(splitPattern(deleteWorkflowPattern))
  IN  IF deleteWorkflowPattern # <<>> /\ Len(patterns) > 0
        THEN SelectSeq(workflows, LAMBDA w : matchesPattern(w, patterns))
        ELSE workflows

\* filterByState comparing with the first state of the list only.
filterByState_firstOnly(workflows, deleteWorkflowByStatePattern) ==
  LET states == mapLower(splitPattern(deleteWorkflowByStatePattern))
  IN  IF toUpperCase(deleteWorkflowByStatePattern) # All
        THEN SelectSeq(workflows, LAMBDA w : /\ states # <<>>
                                             /\ states[1] = toLowerCase(nullish(w.state, <<>>)))
        ELSE workflows

\* Lines 244-250.
filterByState(workflows, deleteWorkflowByStatePattern) ==
  LET states == mapLower(splitPattern(deleteWorkflowByStatePattern))
  IN  IF toUpperCase(deleteWorkflowByStatePattern) # All
        THEN SelectSeq(workflows, LAMBDA w : includes(states, toLowerCase(nullish(w.state, <<>>))))
        ELSE workflows

filterWorkflows(workflows, config) ==
  filterByState(filterByPattern(workflows, config.deleteWorkflowPattern),
                config.deleteWorkflowByStatePattern)

\* Line 253.
allowedConclusionsOf(deleteRunByConclusionPattern) ==
  IF toUpperCase(deleteRunByConclusionPattern) = All
    THEN <<>>
    ELSE mapLower(splitPattern(deleteRunByConclusionPattern))

\* ------------------------------------------------------------------------
\* The state of one invocation
\* ------------------------------------------------------------------------

VARIABLES
  inputs,            \* the action's inputs, as core.getInput returns them
  repo,              \* the backend: workflows, branches and runs of the repository
  deleted,           \* ids of the runs the backend has deleted
  clock,             \* Date.now()
  ticks,             \* how often the clock has advanced
  pc,                \* where run() stands
  cfg,               \* the parsed inputs (lines 166-184)
  workflows,         \* line 199
  branchNames,       \* lines 206-215
  orphanRuns,        \* line 222
  filteredWorkflows, \* lines 228-250
  idx,               \* position of the for loop of line 254 in filteredWorkflows
  batch,             \* the deleteRuns call in progress
  calls,             \* run ids for which deleteWorkflowRun was called, in order
  simulated,         \* run ids logged as simulated deletions, in order
  summaries,         \* the deletion summaries logged, in order
  passes,            \* one record per workflow processed: what was listed and decided
  request            \* the request the octokit client of lines 186-197 is handling

vars ==
  <<inputs, repo, deleted, clock, ticks, pc, cfg, workflows, branchNames,
    orphanRuns, filteredWorkflows, idx, batch, calls, simulated, summaries, passes,
    request>>

NoCfg == [set |-> FALSE]

NoBatch == [active |-> FALSE]

NoRequest ==
  [status |-> "idle", endpoint |-> "none", limit |-> "none", retryCount |-> 0,
   retryAfter |-> 0, sent |-> 0, warnings |-> 0]

ids(runs) == [i \in 1..Len(runs) |-> runs[i].id]

range(list) == {list[i] : i \in 1..Len(list)}

\* What the three run listings return: the runs the backend still holds.
liveRuns == SelectSeq(repo.runs, LAMBDA r : r.id \notin deleted)

\* listWorkflowRuns returning the runs of every workflow.
listWorkflowRuns_anyWorkflow(workflow_id) == liveRuns

\* Lines 256-261: the runs of one workflow.
listWorkflowRuns(workflow_id) == SelectSeq(liveRuns, LAMBDA r : r.workflow_id = workflow_id)

InitWith(Inputs, Repos, Clocks) ==
  /\ inputs \in Inputs
  /\ repo \in Repos
  /\ clock \in Clocks
  /\ deleted = {}
  /\ ticks = 0
  /\ pc = "start"
  /\ cfg = NoCfg
  /\ workflows = <<>>
  /\ branchNames = <<>>
  /\ orphanRuns = <<>>
  /\ filteredWorkflows = <<>>
  /\ idx = 0
  /\ batch = NoBatch
  /\ calls = <<>>
  /\ simulated = <<>>
  /\ summaries = <<>>
  /\ passes = <<>>
  /\ request = NoRequest

\* ------------------------------------------------------------------------
\* run(): lines 163-298
\* ------------------------------------------------------------------------

\* Lines 166-184.  parsed.ok is false where the code throws.
parseInputs(in) ==
  LET parts == split(in.repository, {"/"})
      repoOwner == parts[1]
      repoName == IF Len(parts) >= 2 THEN parts[2] ELSE <<>>
  IN  IF in.token = <<>> \/ in.repository = <<>> \/ repoOwner = <<>> \/ repoName = <<>>
        THEN [ok |-> FALSE]
        ELSE [ok |-> TRUE,
              set |-> TRUE,
              repoOwner |-> repoOwner,
              repoName |-> repoName,
              retainDays |-> Number(orDefault(in.retain_days, <<"3","0">>)),
              keepMinimumRuns |-> Number(orDefault(in.keep_minimum_runs, <<"6">>)),
              useDailyRetention |-> parseBoolean(in.use_daily_retention),
              deleteWorkflowPattern |-> orDefault(in.delete_workflow_pattern, <<>>),
              deleteWorkflowByStatePattern |->
                orDefault(in.delete_workflow_by_state_pattern, All),
              deleteRunByConclusionPattern |->
                orDefault(in.delete_run_by_conclusion_pattern, All),
              dryRun |-> parseBoolean(in.dry_run),
              checkBranchExistence |-> parseBoolean(in.check_branch_existence),
              checkPullRequestExist |-> parseBoolean(in.check_pullrequest_exist)]

\* calledRuns without the dry-run test.
calledRuns_always(runs, dryRun) == ids(runs)

\* Lines 41-46: the runs of a batch for which deleteWorkflowRun is called,
\* and those whose deletion is only logged.
calledRuns(runs, dryRun) == IF dryRun THEN <<>> ELSE ids(runs)

\* simulatedRuns leaving the last run of the batch out of the log.
simulatedRuns_allButLast(runs, dryRun) ==
  IF dryRun THEN ids(SubSeq(runs, 1, Len(runs) - 1)) ELSE <<>>

simulatedRuns(runs, dryRun) == IF dryRun THEN ids(runs) ELSE <<>>

\* Lines 40-54 of deleteRuns: every task is started at once.  A dry-run task
\* returns "skipped" without a call; any other task calls deleteWorkflowRun
\* and waits for it.
startDeleteRuns(runs, context) ==
  /\ batch' = [active |-> TRUE,
               context |-> context,
               runs |-> ids(runs),
               pending |-> range(calledRuns(runs, cfg.dryRun)),
               results |-> [r \in range(simulatedRuns(runs, cfg.dryRun)) |-> "skipped"]]
  /\ calls' = calls \o calledRuns(runs, cfg.dryRun)
  /\ simulated' = simulated \o simulatedRuns(runs, cfg.dryRun)
  /\ pc' = "deleteRuns"

\* The for loop of line 254 at position i: the next workflow's runs are
\* requested, or the loop is over.
enterLoop(list, i) ==
  /\ idx' = i
  /\ pc' = IF i > Len(list) THEN "done" ELSE "listWorkflowRuns"

\* Lines 228-254, after the orphan runs are dealt with.
afterOrphans ==
  /\ filteredWorkflows' = filterWorkflows(workflows, cfg)
  /\ enterLoop(filteredWorkflows', 1)

Start ==
  /\ pc = "start"
  /\ LET parsed == parseInputs(inputs)
     IN  IF parsed.ok
           THEN cfg' = parsed /\ pc' = "listRepoWorkflows"
           ELSE cfg' = cfg /\ pc' = "failed"
  /\ UNCHANGED <<request, inputs, repo, deleted, clock, ticks, workflows, branchNames,
                 orphanRuns, filteredWorkflows, idx, batch, calls, simulated,
                 summaries, passes>>

\* Lines 199-204.
ListRepoWorkflows ==
  /\ pc = "listRepoWorkflows"
  /\ workflows' = repo.workflows
  /\ pc' = IF cfg.checkBranchExistence THEN "listBranches" ELSE "listWorkflowRunsForRepo"
  /\ UNCHANGED <<request, inputs, repo, deleted, clock, ticks, cfg, branchNames, orphanRuns,
                 filteredWorkflows, idx, batch, calls, simulated, summaries, passes>>

\* Lines 207-215.
ListBranches ==
  /\ pc = "listBranches"
  /\ branchNames' = repo.branches
  /\ pc' = "listWorkflowRunsForRepo"
  /\ UNCHANGED <<request, inputs, repo, deleted, clock, ticks, cfg, workflows, orphanRuns,
                 filteredWorkflows, idx, batch, calls, simulated, summaries, passes>>

workflowIds(list) == [i \in 1..Len(list) |-> list[i].id]

\* orphansOf restricted to completed runs.
orphansOf_completedOnly(allRuns, known) ==
  SelectSeq(allRuns, LAMBDA r : /\ ~includes(workflowIds(known), r.workflow_id)
                             /\ r.status = Completed)

\* orphansOf with the workflow ids taken from the filtered workflows.
orphansOf_filteredKnown(allRuns, known) ==
  SelectSeq(allRuns, LAMBDA r : ~includes(workflowIds(filterWorkflows(known, cfg)), r.workflow_id))

\* Line 222.
orphansOf(allRuns, known) == SelectSeq(allRuns, LAMBDA r : ~includes(workflowIds(known), r.workflow_id))

\* Lines 217-226, and lines 228-256 when there is no orphan run.
ListWorkflowRunsForRepo ==
  /\ pc = "listWorkflowRunsForRepo"
  /\ orphanRuns' = orphansOf(liveRuns, workflows)
  /\ IF Len(orphanRuns') > 0
       THEN /\ startDeleteRuns(orphanRuns', "orphan runs")
            /\ UNCHANGED <<filteredWorkflows, idx>>
       ELSE /\ afterOrphans
            /\ UNCHANGED <<batch, calls, simulated>>
  /\ UNCHANGED <<request, inputs, repo, deleted, clock, ticks, cfg, workflows, branchNames,
                 summaries, passes>>

\* ListingFails with the next listing already requested while a batch of
\* delete calls is in flight.
ListingFails_duringBatch ==
  /\ pc \in {"listRepoWorkflows", "listBranches", "listWorkflowRunsForRepo",
             "listWorkflowRuns", "deleteRuns"}
  /\ pc' = "failed"
  /\ UNCHANGED <<request, inputs, repo, deleted, clock, ticks, cfg, workflows, branchNames,
                 orphanRuns, filteredWorkflows, idx, batch, calls, simulated,
                 summaries, passes>>

\* Any of the four paginated listings rejects: the catch of line 295.
ListingFails ==
  /\ pc \in {"listRepoWorkflows", "listBranches", "listWorkflowRunsForRepo",
             "listWorkflowRuns"}
  /\ pc' = "failed"
  /\ UNCHANGED <<request, inputs, repo, deleted, clock, ticks, cfg, workflows, branchNames,
                 orphanRuns, filteredWorkflows, idx, batch, calls, simulated,
                 summaries, passes>>

\* Lines 263-271: the options of the pre-filter.
optionsOf(config, names) ==
  [checkPullRequestExist |-> config.checkPullRequestExist,
   checkBranchExistence |-> config.checkBranchExistence,
   branchNames |-> names,
   allowedConclusions |-> allowedConclusionsOf(config.deleteRunByConclusionPattern),
   retainDays |-> IF config.useDailyRetention THEN Num(0) ELSE config.retainDays,
   skipAgeCheck |-> config.useDailyRetention]

candidatesOf(runs, config, names, now) ==
  SelectSeq(runs, LAMBDA r : shouldDeleteRun(r, optionsOf(config, names), now))

\* Lines 272-285.
retentionOf(candidates, config, now) ==
  IF config.useDailyRetention
    THEN filterRunsByDailyRetention(candidates, config.keepMinimumRuns,
                                    config.retainDays, now)
    ELSE globalRetention(candidates, config.keepMinimumRuns)

\* Lines 256-293 for the workflow at idx, up to the await of line 288 or of
\* the next iteration's listing.
ListWorkflowRuns ==
  /\ pc = "listWorkflowRuns"
  /\ LET workflow == filteredWorkflows[idx]
         runs == listWorkflowRuns(workflow.id)
         candidates == candidatesOf(runs, cfg, branchNames, clock)
         decision == retentionOf(candidates, cfg, clock)
     IN  /\ passes' = Append(passes, [workflow |-> workflow.id,
                                      listed |-> ids(runs),
                                      candidates |-> ids(candidates),
                                      runsToDelete |-> ids(decision.runsToDelete),
                                      runsToRetain |-> ids(decision.runsToRetain),
                                      clock |-> clock])
         /\ IF Len(decision.runsToDelete) > 0
              THEN /\ startDeleteRuns(decision.runsToDelete, "workflow")
                   /\ UNCHANGED idx
              ELSE /\ enterLoop(filteredWorkflows, idx + 1)
                   /\ UNCHANGED <<batch, calls, simulated>>
  /\ UNCHANGED <<request, inputs, repo, deleted, clock, ticks, cfg, workflows, branchNames,
                 orphanRuns, filteredWorkflows, summaries>>

\* DeleteSettles with the error of a rejected call escaping to the catch of
\* run().
DeleteSettles_throws ==
  /\ pc = "deleteRuns"
  /\ \E r \in batch.pending, ok \in BOOLEAN :
       /\ batch' = [batch EXCEPT
                      !.pending = @ \ {r},
                      !.results = (r :> IF ok THEN "deleted" ELSE "failed") @@ @]
       /\ deleted' = IF ok THEN deleted \cup {r} ELSE deleted
       /\ pc' = IF ok THEN pc ELSE "failed"
  /\ UNCHANGED <<request, inputs, repo, clock, ticks, cfg, workflows, branchNames,
                 orphanRuns, filteredWorkflows, idx, calls, simulated, summaries,
                 passes>>

\* Lines 45-52: one deleteWorkflowRun call settles, with success or with an
\* error; the calls of a batch settle in any order.
DeleteSettles ==
  /\ pc = "deleteRuns"
  /\ \E r \in batch.pending, ok \in BOOLEAN :
       /\ batch' = [batch EXCEPT
                      !.pending = @ \ {r},
                      !.results = (r :> IF ok THEN "deleted" ELSE "failed") @@ @]
       /\ deleted' = IF ok THEN deleted \cup {r} ELSE deleted
  /\ UNCHANGED <<request, inputs, repo, clock, ticks, pc, cfg, workflows, branchNames,
                 orphanRuns, filteredWorkflows, idx, calls, simulated, summaries,
                 passes>>

count(results, status) == Cardinality({r \in DOMAIN results : results[r] = status})

\* DeleteRunsReturns without waiting for the pending calls to settle.
DeleteRunsReturns_early ==
  /\ pc = "deleteRuns"
  /\ summaries' = Append(summaries, [context |-> batch.context,
                                     given |-> Len(batch.runs),
                                     deleted |-> count(batch.results, "deleted"),
                                     skipped |-> count(batch.results, "skipped"),
                                     failed |-> count(batch.results, "failed")])
  /\ batch' = NoBatch
  /\ IF batch.context = "orphan runs"
       THEN afterOrphans
       ELSE enterLoop(filteredWorkflows, idx + 1) /\ UNCHANGED filteredWorkflows
  /\ UNCHANGED <<request, inputs, repo, deleted, clock, ticks, cfg, workflows, branchNames,
                 orphanRuns, calls, simulated, passes>>

\* Lines 54-68, and the caller's continuation: after the orphan batch the
\* workflows are filtered and the loop is entered, after a workflow's batch
\* the loop goes on.
DeleteRunsReturns ==
  /\ pc = "deleteRuns"
  /\ batch.pending = {}
  /\ summaries' = Append(summaries, [context |-> batch.context,
                                     given |-> Len(batch.runs),
                                     deleted |-> count(batch.results, "deleted"),
                                     skipped |-> count(batch.results, "skipped"),
                                     failed |-> count(batch.results, "failed")])
  /\ batch' = NoBatch
  /\ IF batch.context = "orphan runs"
       THEN afterOrphans
       ELSE enterLoop(filteredWorkflows, idx + 1) /\ UNCHANGED filteredWorkflows
  /\ UNCHANGED <<request, inputs, repo, deleted, clock, ticks, cfg, workflows, branchNames,
                 orphanRuns, calls, simulated, passes>>

\* Time passes while the runs of a workflow are being listed.  The clock is
\* read only in the step that follows such a listing, so time passing at
\* any other point shows in no other way.
Tick ==
  /\ pc = "listWorkflowRuns"
  /\ ticks < MaxTicks
  /\ clock' = clock + 1
  /\ ticks' = ticks + 1
  /\ UNCHANGED <<request, inputs, repo, deleted, pc, cfg, workflows, branchNames, orphanRuns,
                 filteredWorkflows, idx, batch, calls, simulated, summaries, passes>>

Next ==
  \/ Start
  \/ ListRepoWorkflows
  \/ ListBranches
  \/ ListWorkflowRunsForRepo
  \/ ListWorkflowRuns
  \/ ListingFails
  \/ DeleteSettles
  \/ DeleteRunsReturns
  \/ Tick

\* ------------------------------------------------------------------------
\* The throttled client: lines 186-197
\* ------------------------------------------------------------------------

\* The most retries of one request that are followed.
MaxRetryCount == 2

\* The most requests that are followed.
MaxRequests == 2

\* Line 193: the wait below which onRateLimit asks for a retry.
MaxWaitSeconds == 5

\* The waits, in seconds, the backend may announce with a rate limit.
RetryAfters == {0, 4, 5, 60}

\* The requests run() makes: lines 199, 209, 217, 256 and 46.
Endpoints ==
  {"listRepoWorkflows", "listBranches", "listWorkflowRunsForRepo",
   "listWorkflowRuns", "deleteWorkflowRun"}

\* Lines 191-194: warns, and answers whether the request is to be retried.
onRateLimit(retryAfter) == retryAfter < MaxWaitSeconds

\* Line 195: warns; core.warning returns undefined, which asks for no retry.
onSecondaryRateLimit == FALSE

\* A request made through the client.
SendRequest ==
  /\ request.status \in {"idle", "succeeded", "failed"}
  /\ request.sent < MaxRequests
  /\ \E e \in Endpoints :
       request' = [request EXCEPT !.status = "inFlight", !.endpoint = e,
                                  !.limit = "none", !.retryCount = 0,
                                  !.retryAfter = 0, !.sent = @ + 1]
  /\ UNCHANGED <<inputs, repo, deleted, clock, ticks, pc, cfg, workflows, branchNames,
                 orphanRuns, filteredWorkflows, idx, batch, calls, simulated,
                 summaries, passes>>

\* The backend answers the request.
RequestSucceeds ==
  /\ request.status = "inFlight"
  /\ request' = [request EXCEPT !.status = "succeeded"]
  /\ UNCHANGED <<inputs, repo, deleted, clock, ticks, pc, cfg, workflows, branchNames,
                 orphanRuns, filteredWorkflows, idx, batch, calls, simulated,
                 summaries, passes>>

\* The backend answers with the primary rate limit: the throttling plugin
\* calls onRateLimit and, when it answers true, counts a retry and waits
\* retryAfter seconds; otherwise the request fails.
PrimaryRateLimit ==
  /\ request.status = "inFlight"
  /\ request.retryCount < MaxRetryCount
  /\ \E retryAfter \in RetryAfters :
       request' = IF onRateLimit(retryAfter)
                    THEN [request EXCEPT !.status = "waiting", !.limit = "primary",
                                         !.retryCount = @ + 1, !.retryAfter = retryAfter,
                                         !.warnings = @ + 1]
                    ELSE [request EXCEPT !.status = "failed", !.limit = "primary",
                                         !.retryAfter = retryAfter, !.warnings = @ + 1]
  /\ UNCHANGED <<inputs, repo, deleted, clock, ticks, pc, cfg, workflows, branchNames,
                 orphanRuns, filteredWorkflows, idx, batch, calls, simulated,
                 summaries, passes>>

\* The backend answers with the secondary rate limit: the plugin calls
\* onSecondaryRateLimit and acts on its answer in the same way.
SecondaryRateLimit ==
  /\ request.status = "inFlight"
  /\ request.retryCount < MaxRetryCount
  /\ \E retryAfter \in RetryAfters :
       request' = IF onSecondaryRateLimit
                    THEN [request EXCEPT !.status = "waiting", !.limit = "secondary",
                                         !.retryCount = @ + 1, !.retryAfter = retryAfter,
                                         !.warnings = @ + 1]
                    ELSE [request EXCEPT !.status = "failed", !.limit = "secondary",
                                         !.retryAfter = retryAfter, !.warnings = @ + 1]
  /\ UNCHANGED <<inputs, repo, deleted, clock, ticks, pc, cfg, workflows, branchNames,
                 orphanRuns, filteredWorkflows, idx, batch, calls, simulated,
                 summaries, passes>>

\* The wait is over and the plugin sends the request again.
RetryRequest ==
  /\ request.status = "waiting"
  /\ request' = [request EXCEPT !.status = "inFlight"]
  /\ UNCHANGED <<inputs, repo, deleted, clock, ticks, pc, cfg, workflows, branchNames,
                 orphanRuns, filteredWorkflows, idx, batch, calls, simulated,
                 summaries, passes>>

NextThrottle ==
  \/ SendRequest
  \/ RequestSucceeds
  \/ PrimaryRateLimit
  \/ SecondaryRateLimit
  \/ RetryRequest

\* ------------------------------------------------------------------------
\* The inputs and repositories the invocation is explored over
\* ------------------------------------------------------------------------

sTrue == <<"t","r","u","e">>

sFalse == <<"f","a","l","s","e">>

Bools == {sTrue, sFalse}

InProgress == <<"i","n","_","p","r","o","g","r","e","s","s">>

Success == <<"s","u","c","c","e","s","s">>

Failure == <<"f","a","i","l","u","r","e">>

Main == <<"m","a","i","n">>

Gone == <<"t","o","p","i","c">>

Active == <<"a","c","t","i","v","e">>

Disabled == <<"d","i","s","a","b","l","e","d","_","m","a","n","u","a","l","l","y">>

Build == [id |-> 1, name |-> <<"B","u","i","l","d">>,
          path |-> WorkflowsDir \o <<"c","i",".","y","m","l">>, state |-> Active]

Deploy == [id |-> 2, name |-> <<"D","e","p","l","o","y">>,
           path |-> WorkflowsDir \o <<"c","d",".","y","m","l">>, state |-> Disabled]

\* The workflow id of runs whose workflow file is gone.
RemovedWorkflows == {9}

\* Noon of the fourth day, and creation times before it: two days, one day,
\* one hour less than one day, and two hours less than one day.
Noon == 3 * HoursPerDay + HoursPerDay \div 2

TwoDaysAgo == Noon - 2 * HoursPerDay

OneDayAgo == Noon - HoursPerDay

AlmostOneDayAgo == OneDayAgo + 1

LaterThatDay == OneDayAgo + 2

Inputs(retain_days, keep_minimum_runs, daily, dry, branch, pr, conclusion, pattern, state) ==
  [token |-> <<"t">>,
   repository |-> <<"o","/","r">>,
   retain_days |-> retain_days,
   keep_minimum_runs |-> keep_minimum_runs,
   use_daily_retention |-> daily,
   delete_workflow_pattern |-> pattern,
   delete_workflow_by_state_pattern |-> state,
   delete_run_by_conclusion_pattern |-> conclusion,
   dry_run |-> dry,
   check_branch_existence |-> branch,
   check_pullrequest_exist |-> pr]

Runs(workflow_ids, statuses, conclusions, times, head_branches, pull_requests) ==
  [id : {0}, workflow_id : workflow_ids, status : statuses, conclusion : conclusions,
   created_at : times, head_branch : head_branches, pull_requests : pull_requests]

\* Run ids are the positions in the repository's list.
withIds(list) == [i \in 1..Len(list) |-> [list[i] EXCEPT !.id = i]]

Repos(first, others, n) ==
  { [workflows |-> <<Build, Deploy>>,
     branches |-> <<Main>>,
     runs |-> withIds(<<a>> \o rest)] : a \in first, rest \in [1..(n - 1) -> others] }

\* Whole invocations: finished and unfinished runs of both workflows and
\* of a removed workflow, under both strategies, with and without dry run.
\* The first run may also be one that every check of shouldDeleteRun
\* rejects when the branch, pull request and conclusion checks are on.
MainInputs ==
  { Inputs(<<"1">>, k, daily, dry, sFalse, sFalse, <<>>, <<>>, <<>>) :
      k \in {<<"0">>, <<"1">>}, daily \in Bools, dry \in Bools }
  \cup { Inputs(<<"3">>, <<"1">>, daily, dry, sFalse, sFalse, <<>>, <<>>, <<>>) :
           daily \in Bools, dry \in Bools }
  \cup { Inputs(<<"1">>, <<"1">>, sFalse, sFalse, sTrue, sTrue, Success, <<>>, <<>>) }

MainRuns ==
  Runs({1, 2} \cup RemovedWorkflows, {Completed, InProgress}, {Success},
       {TwoDaysAgo}, {Gone}, {<<>>})

OtherMainRuns == {r \in MainRuns : r.workflow_id # 2}

ProtectedRuns ==
  Runs({1} \cup RemovedWorkflows, {InProgress}, {Failure}, {AlmostOneDayAgo},
       {Main}, {<<7>>})

Init ==
  InitWith(MainInputs, Repos(MainRuns \cup ProtectedRuns, OtherMainRuns, MaxRuns), {Noon})

Spec == Init /\ [][Next]_vars

\* One run with every combination of status, conclusion, age, branch and
\* pull requests, next to old finished runs of the same workflow, under
\* every combination of the checks.
PredicateInputs ==
  { Inputs(rd, k, daily, sTrue, branch, pr, conclusion, <<>>, <<>>) :
      rd \in {<<"0">>, <<"1">>}, k \in {<<"0">>, <<"1">>}, daily \in Bools,
      branch \in Bools, pr \in Bools, conclusion \in {<<>>, Failure} }
  \cup { Inputs(<<"1">>, <<"0">>, sFalse, sFalse, sFalse, sFalse, <<>>, <<>>, <<>>) }

PredicateRuns ==
  Runs({1}, {Completed, InProgress}, {Success, Failure, Null},
       {TwoDaysAgo, AlmostOneDayAgo}, {Main, Gone, Null}, {<<>>, <<7>>})

OldRuns == Runs({1}, {Completed}, {Failure}, {TwoDaysAgo}, {Gone}, {<<>>})

InitPredicate == InitWith(PredicateInputs, Repos(PredicateRuns, OldRuns, MaxRuns), {Noon})

SpecPredicate == InitPredicate /\ [][Next]_vars

\* Finished runs of one workflow that differ in their creation time only,
\* under both strategies and every small keep_minimum_runs and retain_days.
RetentionInputs ==
  { Inputs(rd, k, daily, sTrue, sFalse, sFalse, <<>>, <<>>, <<>>) :
      rd \in {<<"0">>, <<"1">>, <<"2">>}, k \in {<<"0">>, <<"1">>, <<"2">>, <<"3">>},
      daily \in Bools }
  \cup { Inputs(<<"1">>, <<"1">>, daily, sFalse, sTrue, sFalse, <<>>, <<>>, <<>>) :
           daily \in Bools }

RetentionRuns ==
  Runs({1}, {Completed}, {Success},
       {TwoDaysAgo, OneDayAgo, AlmostOneDayAgo, LaterThatDay}, {Gone}, {<<>>})

InitRetention == InitWith(RetentionInputs, Repos(RetentionRuns, RetentionRuns, MaxRuns), {Noon})

SpecRetention == InitRetention /\ [][Next]_vars

\* Input strings as a workflow file may give them: repositories with none,
\* one, two and three segments, numeric inputs that are numbers or not, and
\* filter strings in several letter cases, with and without tokens.
Repositories ==
  { <<>>, <<"o">>, <<"o","/">>, <<"/","r">>, <<"o","/","r">>,
    <<"o","/","/","r">>, <<"o","/","r","/","x">> }

NotANumber == <<"a","b","c">>

MinusOne == <<"-","1">>

Comma == <<",">>

SpacedPipe == <<" ","|"," ">>

NamePatterns ==
  { <<>>, Comma, SpacedPipe,
    <<"b","u","i","l","d">>, <<"B","U","I","L","D">>, <<"B","u","i","l","d">>,
    <<"c","d",".","y","m","l">>, <<"z","z","|","D","e","p">>,
    <<"a",","," ","b","|","c">> }

StatePatterns ==
  { <<>>, All, toLowerCase(All), Comma, Active, toUpperCase(Active),
    Active \o <<","," ">> \o Disabled, <<"a","c","t">> }

ConclusionPatterns ==
  { <<>>, <<"A","l","l">>, Comma, Failure, toUpperCase(Failure),
    Success \o <<"|">> \o Failure }

BaseInputs ==
  Inputs(<<"1">>, <<"0">>, sFalse, sFalse, sFalse, sFalse, <<>>, <<>>, <<>>)

RepositoryInputs == { [BaseInputs EXCEPT !.repository = r] : r \in Repositories }

NumericInputs ==
  { Inputs(rd, k, daily, sFalse, sFalse, sFalse, <<>>, <<>>, <<>>) :
      rd \in {<<>>, <<"1">>, NotANumber, MinusOne},
      k \in {<<"1">>, NotANumber},
      daily \in Bools }

FilterInputs ==
  { Inputs(<<"1">>, <<"0">>, sFalse, sTrue, sFalse, sFalse, <<>>, pattern, state) :
      pattern \in NamePatterns, state \in StatePatterns }
  \cup { Inputs(<<"1">>, <<"0">>, sFalse, sTrue, branch, sFalse, conclusion, <<>>, <<>>) :
           conclusion \in ConclusionPatterns, branch \in Bools }

\* Finished runs of the two workflows and of a removed one, with the
\* conclusion absent, in lower case and capitalised; one run is younger than
\* a day.
InputRuns ==
  Runs({1, 2} \cup RemovedWorkflows, {Completed},
       {Success, Failure, Null, <<"F","a","i","l","u","r","e">>},
       {TwoDaysAgo}, {Gone}, {<<>>})
  \cup Runs({1}, {Completed}, {Success}, {AlmostOneDayAgo}, {Gone}, {<<>>})

OtherInputRuns == Runs({1}, {Completed}, {Failure}, {TwoDaysAgo}, {Gone}, {<<>>})

InitInputs ==
  InitWith(RepositoryInputs \cup NumericInputs \cup FilterInputs,
           Repos(InputRuns, OtherInputRuns, MaxRuns), {Noon})

SpecInputs == InitInputs /\ [][Next]_vars

\* The daily strategy over runs whose created_at may be absent or no date,
\* with keep_minimum_runs and retain_days negative, zero and positive.
DailyInputs ==
  { Inputs(rd, k, sTrue, sTrue, sFalse, sFalse, <<>>, <<>>, <<>>) :
      rd \in {MinusOne, <<"0">>, <<"1">>, <<"2">>},
      k \in {MinusOne, <<"0">>, <<"1">>, <<"2">>} }
  \cup { Inputs(<<"1">>, <<"1">>, sTrue, sFalse, sTrue, sFalse, <<>>, <<>>, <<>>) }

DailyRuns ==
  Runs({1}, {Completed}, {Success},
       {NoCreatedAt, InvalidCreatedAt, TwoDaysAgo, OneDayAgo, LaterThatDay}, {Gone}, {<<>>})

InitDaily == InitWith(DailyInputs, Repos(DailyRuns, DailyRuns, MaxRuns), {Noon})

SpecDaily == InitDaily /\ [][Next]_vars

\* The client alone, before run() has made a step.
ThrottleInputs ==
  { Inputs(<<"1">>, <<"1">>, sFalse, dry, sFalse, sFalse, <<>>, <<>>, <<>>) :
      dry \in {sTrue, sFalse} }

InitThrottle == InitWith(ThrottleInputs, Repos(MainRuns, MainRuns, 1), {Noon})

SpecThrottle == InitThrottle /\ [][NextThrottle]_vars

\* ------------------------------------------------------------------------
\* Properties
\* ------------------------------------------------------------------------

run(i) == repo.runs[i]

\* The run ids handed to deleteRuns so far.
submitted == range(calls) \cup range(simulated)

\* The options the pre-filter of the current invocation uses.
currentOptions == optionsOf(cfg, branchNames)

min(a, b) == IF a < b THEN a ELSE b

OptionSpace ==
  [checkPullRequestExist : BOOLEAN,
   checkBranchExistence : BOOLEAN,
   branchNames : {<<>>, <<Main>>, <<Gone, Main>>},
   allowedConclusions : {<<>>, <<Success>>, <<Failure>>},
   retainDays : {Num(0), Num(1), Num(2), NaN},
   skipAgeCheck : BOOLEAN]

\* C1: shouldDeleteRun is false for every run whose status is not
\* "completed", whatever the options and the run's other fields are; so no
\* such run is among the candidates of any workflow.
C1_UnfinishedNeverDeletable ==
  /\ pc = "listWorkflowRuns" =>
       \A i \in 1..Len(repo.runs) :
         run(i).status # Completed =>
           \A o \in OptionSpace : ~shouldDeleteRun(run(i), o, clock)
  /\ \A n \in 1..Len(passes) :
       \A i \in range(passes[n].candidates) : run(i).status = Completed

\* An unfinished run that every other check would let through was listed
\* and is no candidate.
C1_Witness ==
  \E n \in 1..Len(passes) :
    \E i \in range(passes[n].listed) :
      /\ run(i).status # Completed
      /\ i \notin range(passes[n].candidates)
      /\ shouldDeleteRun([run(i) EXCEPT !.status = Completed], currentOptions,
                         passes[n].clock)

\* C2: no run whose status is not "completed" is handed to deleteRuns in the
\* whole invocation, orphan pass included.
C2_OnlyCompletedSubmitted ==
  \A i \in submitted : run(i).status = Completed

\* C3: under the global strategy with 0 < k <= |C|, exactly k candidates are
\* retained, none of them older than a deleted one, and retain and delete
\* partition the candidates.
C3_GlobalRetainsNewest ==
  \A n \in 1..Len(passes) :
    LET p == passes[n]
        k == cfg.keepMinimumRuns
        retain == range(p.runsToRetain)
        delete == range(p.runsToDelete)
    IN  (~cfg.useDailyRetention /\ gtZero(k) /\ k.val <= Len(p.candidates)) =>
          /\ Len(p.runsToRetain) = k.val
          /\ Cardinality(retain) = k.val
          /\ \A r \in retain, d \in delete : run(r).created_at >= run(d).created_at
          /\ retain \cap delete = {}
          /\ retain \cup delete = range(p.candidates)
          /\ Len(p.runsToDelete) = Cardinality(delete)

\* Two of three candidates are retained, the listing had the newest first
\* and the deleted one is strictly the oldest.
C3_Witness ==
  \E n \in 1..Len(passes) :
    LET p == passes[n]
    IN  /\ ~cfg.useDailyRetention
        /\ cfg.keepMinimumRuns = Num(2)
        /\ Len(p.candidates) = 3
        /\ Len(p.runsToDelete) = 1
        /\ run(p.candidates[1]).created_at > run(p.candidates[3]).created_at
        /\ \A r \in range(p.runsToRetain) :
             run(r).created_at > run(p.runsToDelete[1]).created_at

\* The number of a pass's listed runs that are not handed to deleteRuns is at
\* least min(keep_minimum_runs, number of listed runs).
FloorHolds(p) ==
  Cardinality(range(p.listed) \ submitted)
    >= min(cfg.keepMinimumRuns.val, Len(p.listed))

\* C4, as stated: keep_minimum_runs is a floor per workflow under both
\* strategies.
C4_FloorBothStrategies ==
  \A n \in 1..Len(passes) : ~cfg.keepMinimumRuns.nan => FloorHolds(passes[n])

\* C4, amended: keep_minimum_runs is a floor per workflow under the global
\* strategy.
C4_FloorGlobal ==
  \A n \in 1..Len(passes) :
    (~cfg.useDailyRetention /\ ~cfg.keepMinimumRuns.nan) => FloorHolds(passes[n])

\* Under the global strategy some runs are deleted and exactly
\* keep_minimum_runs of the listed runs are left.
C4_Witness ==
  \E n \in 1..Len(passes) :
    LET p == passes[n]
    IN  /\ ~cfg.useDailyRetention
        /\ gtZero(cfg.keepMinimumRuns)
        /\ Len(p.runsToDelete) > 0
        /\ Cardinality(range(p.listed) \ submitted) = cfg.keepMinimumRuns.val

\* C5: with dry_run no deleteWorkflowRun call is issued and no run is
\* deleted, and every summary reports deleted=0, failed=0 and skipped equal
\* to the number of runs given.
C5_DryRunCallsNothing ==
  (cfg.set /\ cfg.dryRun) =>
    /\ calls = <<>>
    /\ deleted = {}
    /\ \A n \in 1..Len(summaries) :
         /\ summaries[n].deleted = 0
         /\ summaries[n].failed = 0
         /\ summaries[n].skipped = summaries[n].given

\* A dry run ended after an orphan batch and a workflow batch of two runs.
C5_Witness ==
  /\ pc = "done"
  /\ cfg.dryRun
  /\ \E n \in 1..Len(summaries) : summaries[n].context = "orphan runs"
  /\ \E n \in 1..Len(summaries) :
       summaries[n].context = "workflow" /\ summaries[n].given >= 2
  /\ Len(simulated) >= 3

\* The checks of shouldDeleteRun other than the age check let the run through.
otherChecksPass(r) ==
  /\ ~skipStatus(r)
  /\ ~skipPullRequest(r, currentOptions)
  /\ ~skipBranch(r, currentOptions)
  /\ ~skipConclusion(r, currentOptions)

\* C6: in global mode with retain_days > 0, a run that passes the other
\* checks is a candidate exactly when its age is retain_days days or more.
C6_AgeBoundaryExact ==
  \A n \in 1..Len(passes) :
    (~cfg.useDailyRetention /\ gtZero(cfg.retainDays)) =>
      \A i \in range(passes[n].listed) :
        otherChecksPass(run(i)) =>
          (i \in range(passes[n].candidates)
             <=> passes[n].clock - run(i).created_at
                   >= cfg.retainDays.val * HoursPerDay)

\* The clock advanced while the runs were listed, and a run whose age is
\* then exactly retain_days days is a candidate.
C6_Witness ==
  \E n \in 1..Len(passes) :
    /\ ~cfg.useDailyRetention
    /\ gtZero(cfg.retainDays)
    /\ passes[n].clock > Noon
    /\ \E i \in range(passes[n].candidates) :
         passes[n].clock - run(i).created_at = cfg.retainDays.val * HoursPerDay

\* C7: with check_branch_existence, a run whose head_branch is one of the
\* fetched branch names is not submitted by the per-workflow processing.
C7_ExistingBranchKept ==
  (cfg.set /\ cfg.checkBranchExistence) =>
    \A n \in 1..Len(passes) :
      \A i \in range(passes[n].listed) :
        includes(branchNames, run(i).head_branch) =>
          /\ i \notin range(passes[n].candidates)
          /\ i \notin range(passes[n].runsToDelete)
          /\ i \notin submitted

\* A run of an existing branch that would be deleted without the branch
\* check (keep_minimum_runs is 0) was listed and is kept.
C7_Witness ==
  /\ pc = "done"
  /\ cfg.checkBranchExistence
  /\ cfg.keepMinimumRuns = Num(0)
  /\ \E n \in 1..Len(passes) :
       \E i \in range(passes[n].listed) :
         /\ includes(branchNames, run(i).head_branch)
         /\ shouldDeleteRun(run(i), [currentOptions EXCEPT !.checkBranchExistence = FALSE],
                            passes[n].clock)
         /\ i \notin submitted

\* C8: with check_pullrequest_exist a run with linked pull requests is no
\* candidate; without it the decision is the decision for the same run with
\* no linked pull request.
C8_PullRequestCheck ==
  \A n \in 1..Len(passes) :
    \A i \in range(passes[n].listed) :
      IF cfg.checkPullRequestExist
        THEN Len(run(i).pull_requests) > 0 => i \notin range(passes[n].candidates)
        ELSE i \in range(passes[n].candidates)
               <=> shouldDeleteRun([run(i) EXCEPT !.pull_requests = <<>>],
                                   currentOptions, passes[n].clock)

\* A run with a linked pull request that would be a candidate without the
\* check was listed and is no candidate.
C8_Witness ==
  \E n \in 1..Len(passes) :
    \E i \in range(passes[n].listed) :
      /\ cfg.checkPullRequestExist
      /\ Len(run(i).pull_requests) > 0
      /\ i \notin range(passes[n].candidates)
      /\ shouldDeleteRun(run(i), [currentOptions EXCEPT !.checkPullRequestExist = FALSE],
                         passes[n].clock)

\* The orphan step of lines 217-226 has been taken.
orphanStepTaken ==
  \/ pc \in {"deleteRuns", "listWorkflowRuns", "done"}
  \/ pc = "failed" /\ idx > 0

\* The runs of the repository whose workflow is not a listed workflow.
unknownWorkflowRuns ==
  {i \in 1..Len(repo.runs) :
     \A w \in 1..Len(repo.workflows) : repo.workflows[w].id # run(i).workflow_id}

\* C9: the orphan delete set is exactly the set of runs whose workflow_id is
\* no listed workflow's id, and all of it is handed to deleteRuns.
C9_OrphansAreUnknownWorkflowRuns ==
  orphanStepTaken =>
    /\ range(ids(orphanRuns)) = unknownWorkflowRuns
    /\ unknownWorkflowRuns \subseteq submitted
    /\ Len(orphanRuns) = Cardinality(unknownWorkflowRuns)

\* An orphan run that every check of shouldDeleteRun rejects (unfinished,
\* linked to a pull request, on an existing branch, of a conclusion that is
\* not allowed, younger than retain_days) was handed to deleteRuns while
\* keep_minimum_runs is positive, and a run of a listed workflow is no orphan.
C9_Witness ==
  /\ pc = "done"
  /\ gtZero(cfg.keepMinimumRuns)
  /\ \E i \in range(ids(orphanRuns)) :
       /\ i \in submitted
       /\ skipStatus(run(i))
       /\ skipPullRequest(run(i), currentOptions)
       /\ skipBranch(run(i), currentOptions)
       /\ skipConclusion(run(i), currentOptions)
       /\ skipAge(run(i), currentOptions, Noon)
  /\ \E i \in 1..Len(repo.runs) : i \notin range(ids(orphanRuns))

\* C10: with keep_minimum_runs = 0 nothing is retained and the delete set is
\* the whole candidate list, under both strategies.
C10_KeepZeroDeletesAll ==
  \A n \in 1..Len(passes) :
    LET p == passes[n]
    IN  (cfg.keepMinimumRuns = Num(0) /\ Len(p.candidates) > 0) =>
          /\ p.runsToRetain = <<>>
          /\ range(p.runsToDelete) = range(p.candidates)
          /\ Len(p.runsToDelete) = Len(p.candidates)

\* Under the daily strategy with retain_days = 2 and keep_minimum_runs = 0,
\* three candidates of two calendar days, none older than the cutoff, are
\* all deleted.
C10_Witness ==
  \E n \in 1..Len(passes) :
    LET p == passes[n]
    IN  /\ cfg.useDailyRetention
        /\ cfg.keepMinimumRuns = Num(0)
        /\ cfg.retainDays = Num(2)
        /\ Len(p.candidates) = 3
        /\ Len(p.runsToDelete) = 3
        /\ \E i, j \in range(p.candidates) :
             dateKey(run(i).created_at) # dateKey(run(j).created_at)

\* The candidates of pass p that are not older than the cutoff of the pass,
\* and those among them created on UTC date d.
cutoffTime(p) == p.clock - cfg.retainDays.val * HoursPerDay

freshOf(p) == {i \in range(p.candidates) : run(i).created_at >= cutoffTime(p)}

bucketOf(p, d) == {i \in freshOf(p) : dateKey(run(i).created_at) = d}

\* C11: under the daily strategy with keep_minimum_runs = k > 0 and
\* retain_days > 0, the runs retained from each date's bucket are
\* min(k, bucket size) in number, none of them was created before a run of
\* the bucket that is not retained, every other run of the bucket is in the
\* delete set, and nothing but non-expired candidates is retained.
C11_DailyBucketsKeepNewest ==
  \A n \in 1..Len(passes) :
    LET p == passes[n]
        k == cfg.keepMinimumRuns
    IN  (cfg.useDailyRetention /\ gtZero(k) /\ gtZero(cfg.retainDays)) =>
          /\ range(p.runsToRetain) \subseteq freshOf(p)
          /\ \A d \in {dateKey(run(i).created_at) : i \in freshOf(p)} :
               LET kept == bucketOf(p, d) \cap range(p.runsToRetain)
                   rest == bucketOf(p, d) \ kept
               IN  /\ Cardinality(kept) = min(k.val, Cardinality(bucketOf(p, d)))
                   /\ \A a \in kept, b \in rest : run(a).created_at >= run(b).created_at
                   /\ rest \subseteq range(p.runsToDelete)
                   /\ kept \cap range(p.runsToDelete) = {}

\* Two dates have non-expired candidates; one bucket is larger than
\* keep_minimum_runs, so that its newest run is retained and an older one
\* deleted, while the other date's only run is retained as well.
C11_Witness ==
  \E n \in 1..Len(passes) :
    LET p == passes[n]
    IN  /\ cfg.useDailyRetention
        /\ gtZero(cfg.keepMinimumRuns)
        /\ gtZero(cfg.retainDays)
        /\ \E a, b, c \in freshOf(p) :
             /\ dateKey(run(a).created_at) = dateKey(run(b).created_at)
             /\ run(a).created_at > run(b).created_at
             /\ dateKey(run(c).created_at) # dateKey(run(a).created_at)
             /\ a \in range(p.runsToRetain)
             /\ b \in range(p.runsToDelete)
             /\ c \in range(p.runsToRetain)

\* C12: under the daily strategy every candidate created before the cutoff
\* of the pass is in the delete set and not in the retain set.
C12_ExpiredAlwaysDeleted ==
  \A n \in 1..Len(passes) :
    LET p == passes[n]
    IN  (cfg.useDailyRetention /\ ~cfg.retainDays.nan) =>
          \A i \in range(p.candidates) :
            run(i).created_at < cutoffTime(p) =>
              /\ i \in range(p.runsToDelete)
              /\ i \notin range(p.runsToRetain)

\* The cutoff falls inside a calendar date: an expired run is deleted
\* although, with the non-expired run of the same date that is retained,
\* it is among the newest keep_minimum_runs runs of that date.
C12_Witness ==
  \E n \in 1..Len(passes) :
    LET p == passes[n]
    IN  /\ cfg.useDailyRetention
        /\ gtZero(cfg.keepMinimumRuns)
        /\ gtZero(cfg.retainDays)
        /\ \E i, j \in range(p.candidates) :
             /\ run(i).created_at < cutoffTime(p)
             /\ run(j).created_at >= cutoffTime(p)
             /\ dateKey(run(i).created_at) = dateKey(run(j).created_at)
             /\ Cardinality({m \in range(p.candidates) :
                               dateKey(run(m).created_at) = dateKey(run(i).created_at)})
                  <= cfg.keepMinimumRuns.val
             /\ i \in range(p.runsToDelete)
             /\ j \in range(p.runsToRetain)

RECURSIVE sumFailed(_)
sumFailed(list) ==
  IF list = <<>> THEN 0 ELSE list[Len(list)].failed + sumFailed(SubSeq(list, 1, Len(list) - 1))

\* The delete calls that have settled with an error.
failedCalls ==
  {r \in range(calls) : r \notin deleted /\ ~(batch.active /\ r \in batch.pending)}

\* The state part of C13.
deleteSetsAllCalled ==
  (cfg.set /\ ~cfg.dryRun) =>
    /\ orphanStepTaken => range(ids(orphanRuns)) \subseteq range(calls)
    /\ \A n \in 1..Len(passes) : range(passes[n].runsToDelete) \subseteq range(calls)
    /\ \A n \in 1..Len(summaries) :
         summaries[n].deleted + summaries[n].failed = summaries[n].given
    /\ sumFailed(summaries) + (IF batch.active THEN count(batch.results, "failed") ELSE 0)
         = Cardinality(failedCalls)
    /\ pc = "done" => Len(passes) = Len(filteredWorkflows)

\* C13: without dry_run a delete call is issued for every run of every
\* delete set whatever the other calls' outcomes, every failed call is
\* counted as failed in a summary, all filtered workflows are processed when
\* the invocation ends, and the invocation never turns to failure from
\* inside deleteRuns.
C13_FailureIsolation ==
  /\ []deleteSetsAllCalled
  /\ [][pc = "deleteRuns" => pc' # "failed"]_vars

\* The orphan batch had a failed call and a workflow processed after it had
\* a batch in which one call failed and another deleted its run, and the
\* invocation ended without reporting failure.
C13_Witness ==
  /\ pc = "done"
  /\ ~cfg.dryRun
  /\ \E n, m \in 1..Len(summaries) :
       /\ n < m
       /\ summaries[n].context = "orphan runs"
       /\ summaries[n].failed > 0
       /\ summaries[m].context = "workflow"
       /\ summaries[m].failed > 0
       /\ summaries[m].deleted > 0

\* The invocation has failed, or not yet begun, without any backend call:
\* nothing was listed and nothing handed to deleteRuns.
noBackendCall ==
  /\ pc \in {"start", "failed"}
  /\ cfg = NoCfg
  /\ workflows = <<>>
  /\ branchNames = <<>>
  /\ orphanRuns = <<>>
  /\ passes = <<>>
  /\ calls = <<>>
  /\ simulated = <<>>
  /\ deleted = {}

repositorySegments == split(inputs.repository, {"/"})

exactlyTwoSegments ==
  /\ Len(repositorySegments) = 2
  /\ repositorySegments[1] # <<>>
  /\ repositorySegments[2] # <<>>

\* C14: a repository input that is not exactly two non-empty segments
\* separated by "/" ends the invocation in failure before any backend call.
C14_MalformedRepositoryFails == ~exactlyTwoSegments => noBackendCall

numericInputsParse ==
  /\ ~Number(orDefault(inputs.retain_days, <<"3","0">>)).nan
  /\ ~Number(orDefault(inputs.keep_minimum_runs, <<"6">>)).nan

\* C15: a retain_days or keep_minimum_runs input that is no number ends the
\* invocation in failure before any listing or deletion call.
C15_UnparseableNumberFails == ~numericInputsParse => noBackendCall

Delimiters == {",", "|"}

\* The characters of s that are neither delimiters nor white space.
squeeze(s) == SelectSeq(s, LAMBDA c : c \notin Delimiters /\ ~IsSpace(c))

RECURSIVE flatten(_)
flatten(list) == IF list = <<>> THEN <<>> ELSE Head(list) \o flatten(Tail(list))

\* tokens is s split on "," and "|", each piece trimmed, empty pieces dropped.
normalised(s, tokens) ==
  /\ \A i \in 1..Len(tokens) :
       /\ tokens[i] # <<>>
       /\ ~IsSpace(tokens[i][1])
       /\ ~IsSpace(tokens[i][Len(tokens[i])])
       /\ \A j \in 1..Len(tokens[i]) : tokens[i][j] \notin Delimiters
  /\ squeeze(flatten(tokens)) = squeeze(s)
  /\ Len(tokens) = Cardinality({i \in 1..Len(split(s, Delimiters)) :
                                  squeeze(split(s, Delimiters)[i]) # <<>>})

ExamplePattern == <<"a",","," ","b","|","c">>

\* The value of a state or conclusion input that stands for no restriction.
unrestricted(value) == value = <<>> \/ toUpperCase(value) = All

\* Whether the pre-filter takes or rejects run i at time now for reasons
\* other than its conclusion.
passesBesidesConclusion(i, now) ==
  /\ ~skipStatus(run(i))
  /\ ~skipPullRequest(run(i), currentOptions)
  /\ ~skipBranch(run(i), currentOptions)
  /\ ~skipAge(run(i), currentOptions, now)

\* C16: each of the three filter inputs is split on "," and "|" into trimmed,
\* non-empty tokens ("a, b|c" gives a, b, c); a state input that is empty or
\* "ALL" in any letter case excludes no workflow, and a conclusion input that
\* is empty or "ALL" in any letter case excludes no run.
C16_FilterStringsNormalised ==
  /\ \A s \in {inputs.delete_workflow_pattern, inputs.delete_workflow_by_state_pattern,
               inputs.delete_run_by_conclusion_pattern} :
       /\ normalised(s, splitPattern(s))
       /\ s = ExamplePattern =>
            splitPattern(s) = << <<"a">>, <<"b">>, <<"c">> >>
  /\ (cfg.set /\ unrestricted(inputs.delete_workflow_by_state_pattern)) =>
       /\ filterByState(workflows, cfg.deleteWorkflowByStatePattern) = workflows
       /\ (idx > 0 /\ splitPattern(inputs.delete_workflow_pattern) = <<>>) =>
            filteredWorkflows = workflows
  /\ (cfg.set /\ unrestricted(inputs.delete_run_by_conclusion_pattern)) =>
       \A n \in 1..Len(passes) :
         \A i \in range(passes[n].listed) :
           i \in range(passes[n].candidates) <=> passesBesidesConclusion(i, passes[n].clock)

\* The name pattern "a, b|c" was split into three tokens; with the state
\* input "all" both workflows were processed, and with the conclusion input
\* absent a run without a conclusion was a candidate.
C16_Witness ==
  /\ pc = "done"
  /\ inputs.delete_workflow_pattern = ExamplePattern
  /\ inputs.delete_workflow_by_state_pattern = toLowerCase(All)
  /\ inputs.delete_run_by_conclusion_pattern = <<>>
  /\ Len(filteredWorkflows) = 2
  /\ Len(passes) = 2
  /\ \E n \in 1..Len(passes) :
       \E i \in range(passes[n].candidates) : run(i).conclusion = Null

nameTokens == splitPattern(inputs.delete_workflow_pattern)

stateTokens == splitPattern(inputs.delete_workflow_by_state_pattern)

\* The path without its directories.
basename(path) == split(path, {"/"})[Len(split(path, {"/"}))]

containsCaseSensitive(w) ==
  \E i \in 1..Len(nameTokens) :
    strIncludes(w.name, nameTokens[i]) \/ strIncludes(basename(w.path), nameTokens[i])

containsIgnoringCase(w) ==
  \E i \in 1..Len(nameTokens) :
    \/ strIncludes(toLowerCase(w.name), toLowerCase(nameTokens[i]))
    \/ strIncludes(toLowerCase(basename(w.path)), toLowerCase(nameTokens[i]))

\* C17 as stated: with name patterns, the workflows processed all contain
\* a pattern in their name or filename as a case-sensitive substring, and
\* with no state restriction every workflow that does is processed.
C17_NameFilterCaseSensitive ==
  (idx > 0 /\ nameTokens # <<>>) =>
    \A w \in range(workflows) :
      /\ w \in range(filteredWorkflows) => containsCaseSensitive(w)
      /\ unrestricted(inputs.delete_workflow_by_state_pattern) =>
           (containsCaseSensitive(w) => w \in range(filteredWorkflows))

\* C17, amended: the same with the substring test ignoring letter case.
C17_NameFilterIgnoresCase ==
  (idx > 0 /\ nameTokens # <<>>) =>
    \A w \in range(workflows) :
      /\ w \in range(filteredWorkflows) => containsIgnoringCase(w)
      /\ unrestricted(inputs.delete_workflow_by_state_pattern) =>
           (containsIgnoringCase(w) => w \in range(filteredWorkflows))

\* The invocation ended having processed a workflow that matches a pattern
\* only up to letter case, and having left out a workflow that matches none.
C17_Witness ==
  /\ pc = "done"
  /\ nameTokens # <<>>
  /\ \E w \in range(filteredWorkflows) :
       containsIgnoringCase(w) /\ ~containsCaseSensitive(w)
  /\ \E w \in range(workflows) :
       w \notin range(filteredWorkflows) /\ ~containsIgnoringCase(w)
  /\ Len(passes) = Len(filteredWorkflows)

\* The state input restricts: it is not "ALL" and has tokens.
stateRestricted ==
  /\ ~unrestricted(inputs.delete_workflow_by_state_pattern)
  /\ stateTokens # <<>>

stateEquals(w) == \E i \in 1..Len(stateTokens) : w.state = stateTokens[i]

stateEqualsIgnoringCase(w) ==
  \E i \in 1..Len(stateTokens) : toLowerCase(w.state) = toLowerCase(stateTokens[i])

\* C18 as stated: with state patterns, the workflows processed all have a
\* state equal to a pattern, and with no name pattern every workflow that
\* has is processed.
C18_StateFilterCaseSensitive ==
  (idx > 0 /\ stateRestricted) =>
    \A w \in range(workflows) :
      /\ w \in range(filteredWorkflows) => stateEquals(w)
      /\ nameTokens = <<>> => (stateEquals(w) => w \in range(filteredWorkflows))

\* C18, amended: the same with the comparison ignoring letter case.
C18_StateFilterIgnoresCase ==
  (idx > 0 /\ stateRestricted) =>
    \A w \in range(workflows) :
      /\ w \in range(filteredWorkflows) => stateEqualsIgnoringCase(w)
      /\ nameTokens = <<>> => (stateEqualsIgnoringCase(w) => w \in range(filteredWorkflows))

\* The invocation ended having processed a workflow whose state equals a
\* pattern only up to letter case, and having left out the other workflow.
C18_Witness ==
  /\ pc = "done"
  /\ stateRestricted
  /\ nameTokens = <<>>
  /\ \E w \in range(filteredWorkflows) :
       stateEqualsIgnoringCase(w) /\ ~stateEquals(w)
  /\ \E w \in range(workflows) : w \notin range(filteredWorkflows)
  /\ Len(passes) = Len(filteredWorkflows)

\* C19: a name or state input without tokens filters nothing: with neither
\* filter restricting every listed workflow is processed, and with no state
\* tokens the workflows processed are those the name filter keeps.
C19_EmptyPatternSetKeepsAll ==
  idx > 0 =>
    /\ (nameTokens = <<>> /\ ~stateRestricted) =>
         filteredWorkflows = workflows
    /\ stateTokens = <<>> =>
         \A w \in range(workflows) :
           (nameTokens = <<>> \/ containsIgnoringCase(w)) => w \in range(filteredWorkflows)

conclusionTokens == splitPattern(inputs.delete_run_by_conclusion_pattern)

\* The conclusion input restricts: it is not "ALL" and has tokens.
conclusionRestricted ==
  /\ ~unrestricted(inputs.delete_run_by_conclusion_pattern)
  /\ conclusionTokens # <<>>

conclusionIsMember(i) ==
  /\ run(i).conclusion # Null
  /\ \E t \in 1..Len(conclusionTokens) :
       toLowerCase(run(i).conclusion) = toLowerCase(conclusionTokens[t])

\* C20: with a conclusion filter a listed run is a candidate exactly when
\* its conclusion is, ignoring letter case, one of the filter's and the
\* other checks let it through, so never when its conclusion is absent;
\* without one, exactly when the other checks let it through.
C20_ConclusionFilter ==
  cfg.set =>
    \A n \in 1..Len(passes) :
      \A i \in range(passes[n].listed) :
        i \in range(passes[n].candidates) <=>
          /\ passesBesidesConclusion(i, passes[n].clock)
          /\ conclusionRestricted => conclusionIsMember(i)

\* Under a conclusion filter a workflow's pass took a run whose conclusion
\* is the filter's only up to letter case and rejected a run of the same
\* workflow that has no conclusion, and the invocation ended.
C20_Witness ==
  /\ pc = "done"
  /\ conclusionRestricted
  /\ \E n \in 1..Len(passes) :
       /\ \E i \in range(passes[n].candidates) :
            \A t \in 1..Len(conclusionTokens) : run(i).conclusion # conclusionTokens[t]
       /\ \E j \in range(passes[n].listed) :
            /\ run(j).conclusion = Null
            /\ j \notin range(passes[n].candidates)

\* C24: under the global strategy, when keep_minimum_runs exceeds the number
\* of candidates nothing is deleted and every candidate is retained; whatever
\* keep_minimum_runs is, at most that many runs are retained and no run is
\* both retained and deleted.
C24_GlobalKeepsAllWhenFew ==
  \A n \in 1..Len(passes) :
    LET p == passes[n]
        k == cfg.keepMinimumRuns
    IN  (~cfg.useDailyRetention /\ ~k.nan) =>
          /\ k.val > Len(p.candidates) =>
               /\ p.runsToDelete = <<>>
               /\ range(p.runsToRetain) = range(p.candidates)
               /\ Len(p.runsToRetain) = Len(p.candidates)
          /\ Len(p.runsToRetain) <= k.val
          /\ range(p.runsToRetain) \cap range(p.runsToDelete) = {}

\* A workflow had two candidates under keep_minimum_runs = 3: both were
\* retained and nothing was handed to deleteRuns.
C24_Witness ==
  /\ pc = "done"
  /\ ~cfg.useDailyRetention
  /\ cfg.keepMinimumRuns = Num(3)
  /\ \E n \in 1..Len(passes) :
       /\ Len(passes[n].candidates) = 2
       /\ Len(passes[n].runsToRetain) = 2
       /\ passes[n].runsToDelete = <<>>
  /\ submitted = {}

noDuplicates(list) == \A i, j \in 1..Len(list) : list[i] = list[j] => i = j

\* C25: the orphan delete set and the run lists of the workflows processed
\* are pairwise disjoint, and no run id is handed to deleteRuns twice.
C25_EachRunDecidedOnce ==
  /\ noDuplicates(calls \o simulated)
  /\ \A n, m \in 1..Len(passes) :
       n # m => range(passes[n].listed) \cap range(passes[m].listed) = {}
  /\ \A n \in 1..Len(passes) :
       /\ range(passes[n].listed) \cap range(ids(orphanRuns)) = {}
       /\ noDuplicates(passes[n].listed)
       /\ noDuplicates(passes[n].runsToDelete \o passes[n].runsToRetain)
  /\ noDuplicates(ids(orphanRuns))

\* An orphan run and runs of both workflows were submitted in one
\* invocation, in three batches.
C25_Witness ==
  /\ pc = "done"
  /\ Len(summaries) = 3
  /\ Cardinality(submitted) = 3
  /\ Len(passes) = 2
  /\ \A n \in 1..Len(passes) : passes[n].runsToDelete # <<>>

\* The position of x in list.
pos(list, x) == CHOOSE i \in 1..Len(list) : list[i] = x

\* C28: the selection is a function of the candidate list, the configuration
\* and the clock.  Among candidates of equal created_at of which one is
\* retained and one deleted, the global strategy retains the one later in the
\* list and the daily strategy the one earlier in it (the sorts are stable),
\* and the two lists together hold each candidate once.
C28_SelectionDeterministic ==
  \A n \in 1..Len(passes) :
    LET p == passes[n]
    IN  /\ \A a \in range(p.runsToRetain), b \in range(p.runsToDelete) :
             run(a).created_at = run(b).created_at =>
               IF cfg.useDailyRetention
                 THEN pos(p.candidates, a) < pos(p.candidates, b)
                 ELSE pos(p.candidates, a) > pos(p.candidates, b)
        /\ range(p.runsToRetain) \cup range(p.runsToDelete) = range(p.candidates)
        /\ Len(p.runsToRetain) + Len(p.runsToDelete) = Len(p.candidates)

\* Two candidates of equal created_at were split by the selection, one
\* retained and one deleted.
C28_Witness ==
  \E n \in 1..Len(passes) :
    \E a \in range(passes[n].runsToRetain), b \in range(passes[n].runsToDelete) :
      /\ run(a).created_at = run(b).created_at
      /\ pc = "done"

\* What an invocation with the current configuration and clock would hand
\* to deleteRuns for the runs the backend holds now.
wouldSubmit ==
  range(ids(orphansOf(liveRuns, repo.workflows)))
  \cup UNION { range(ids(retentionOf(candidatesOf(listWorkflowRuns(w.id), cfg, branchNames, clock),
                                     cfg, clock).runsToDelete)) :
               w \in range(filterWorkflows(repo.workflows, cfg)) }

\* The invocation is over, every delete call succeeded and the clock did
\* not move.
cleanFinish ==
  /\ pc = "done"
  /\ ~cfg.dryRun
  /\ range(calls) \subseteq deleted
  /\ ticks = 0

\* C29: after an invocation without dry_run in which every delete call
\* succeeded, a second invocation with the same configuration and clock
\* would submit no run, under either strategy.
C29_SecondInvocationSubmitsNothing == cleanFinish => wouldSubmit = {}

\* The first invocation deleted an orphan run and a workflow's run and kept
\* a run of that workflow, which a second invocation lists again.
C29_Witness ==
  /\ cleanFinish
  /\ gtZero(cfg.keepMinimumRuns)
  /\ \E n \in 1..Len(summaries) : summaries[n].context = "orphan runs"
  /\ \E n \in 1..Len(passes) :
       /\ passes[n].runsToDelete # <<>>
       /\ passes[n].runsToRetain # <<>>
       /\ range(passes[n].runsToRetain) \subseteq range(ids(liveRuns))

\* The runs of a workflow in the repository as it was when the invocation
\* began, and what pass p would select from them.
snapshotRuns(workflow_id) == SelectSeq(repo.runs, LAMBDA r : r.workflow_id = workflow_id)

previewOf(p) ==
  range(ids(retentionOf(candidatesOf(snapshotRuns(p.workflow), cfg, branchNames, p.clock),
                        cfg, p.clock).runsToDelete))

\* The run ids handed to deleteRuns in the mode of the invocation.
handed == IF cfg.dryRun THEN range(simulated) ELSE range(calls)

\* C21: the run ids logged as simulated deletions under dry_run and the run
\* ids for which a delete call is attempted without it are the same function
\* of the repository snapshot, the clock of each pass and the configuration:
\* the orphans of the snapshot and what each pass selects from the
\* snapshot's runs of its workflow.
C21_DryRunIsFaithfulPreview ==
  cfg.set =>
    /\ cfg.dryRun => calls = <<>>
    /\ ~cfg.dryRun => simulated = <<>>
    /\ orphanStepTaken => unknownWorkflowRuns \subseteq handed
    /\ \A n \in 1..Len(passes) :
         /\ range(passes[n].runsToDelete) = previewOf(passes[n])
         /\ previewOf(passes[n]) \subseteq handed
    /\ handed \subseteq unknownWorkflowRuns \cup UNION {previewOf(passes[n]) : n \in 1..Len(passes)}
    /\ pc = "done" =>
         [n \in 1..Len(passes) |-> passes[n].workflow]
           = workflowIds(filterWorkflows(repo.workflows, cfg))

\* Without dry_run an invocation deleted an orphan run and then runs of
\* both workflows, so that the later listings saw a changed repository.
C21_Witness ==
  /\ pc = "done"
  /\ ~cfg.dryRun
  /\ Len(passes) = 2
  /\ \A n \in 1..Len(passes) : passes[n].runsToDelete # <<>>
  /\ unknownWorkflowRuns # {}
  /\ Cardinality(deleted) = 3

\* The state part of C22.
failedListingStopsDeletion ==
  (pc = "failed" /\ cfg.set) =>
    /\ ~batch.active
    /\ idx = 0 => (calls = <<>> /\ simulated = <<>> /\ deleted = {})

\* C22: when a listing fails the invocation has failed with no delete call
\* in flight, and no delete call is issued or settled afterwards; when it is
\* the workflow, branch or repository-wide run listing, none was issued.
C22_ListingFailureAborts ==
  /\ []failedListingStopsDeletion
  /\ [][pc = "failed" => (calls' = calls /\ simulated' = simulated /\ deleted' = deleted
                           /\ pc' = "failed")]_vars

\* The listing of the second workflow's runs failed after an orphan run and
\* a run of the first workflow had been deleted.
C22_Witness ==
  /\ pc = "failed"
  /\ cfg.set
  /\ idx = 2
  /\ Len(passes) = 1
  /\ Len(summaries) = 2
  /\ Cardinality(deleted) >= 2

\* The batches started so far: the orphan batch and one for each pass that
\* selected runs.
batchesStarted ==
  (IF orphanStepTaken /\ orphanRuns # <<>> THEN 1 ELSE 0)
  + Cardinality({n \in 1..Len(passes) : passes[n].runsToDelete # <<>>})

\* C30: delete calls are in flight only inside deleteRuns, so that every
\* call of a batch has settled before the next listing is requested; a
\* batch's summary is produced when all its calls have settled, and the
\* orphan batch's summary precedes every workflow's.
C30_BatchesStrictlyOrdered ==
  /\ pc # "deleteRuns" => batch = NoBatch
  /\ pc = "deleteRuns" =>
       /\ batch.pending \cup DOMAIN batch.results = range(batch.runs)
       /\ batch.pending \cap DOMAIN batch.results = {}
       /\ batch.context = "orphan runs" => passes = <<>>
  /\ Len(summaries) = batchesStarted - (IF batch.active THEN 1 ELSE 0)
  /\ \A n \in 1..Len(summaries) :
       /\ summaries[n].deleted + summaries[n].skipped + summaries[n].failed = summaries[n].given
       /\ summaries[n].context = "orphan runs" => n = 1
  /\ (passes # <<>> /\ orphanRuns # <<>>) =>
       (summaries # <<>> /\ summaries[1].context = "orphan runs")

\* A workflow's batch has a call in flight and a call that has settled,
\* after the orphan batch's summary was produced.
C30_Witness ==
  /\ pc = "deleteRuns"
  /\ batch.context = "workflow"
  /\ batch.pending # {}
  /\ DOMAIN batch.results # {}
  /\ Len(summaries) >= 1
  /\ summaries[1].context = "orphan runs"

\* The runs of listed workflows that the name or state filter leaves out.
excludedWorkflowRuns ==
  {i \in 1..Len(repo.runs) :
     /\ \E w \in range(repo.workflows) : w.id = run(i).workflow_id
     /\ \A w \in range(filteredWorkflows) : w.id # run(i).workflow_id}

\* C26: a run of a listed workflow is never an orphan, and once the
\* workflows are filtered the runs of a workflow the filters leave out are
\* in no pass, are not submitted and are not deleted.
C26_ExcludedWorkflowsUntouched ==
  /\ \A i \in range(ids(orphanRuns)) :
       \A w \in range(repo.workflows) : w.id # run(i).workflow_id
  /\ idx > 0 =>
       \A i \in excludedWorkflowRuns :
         /\ i \notin submitted
         /\ i \notin deleted
         /\ \A n \in 1..Len(passes) : i \notin range(passes[n].listed)

\* The invocation ended having submitted the runs of the workflow the
\* filter keeps, and having left alone a run of the workflow the filter
\* leaves out, old enough to be deleted otherwise.
C26_Witness ==
  /\ pc = "done"
  /\ Len(filteredWorkflows) = 1
  /\ \E i \in excludedWorkflowRuns :
       /\ run(i).status = Completed
       /\ run(i).created_at = TwoDaysAgo
       /\ i \notin range(ids(orphanRuns))
  /\ submitted # {}
  /\ \A i \in submitted : run(i).workflow_id = filteredWorkflows[1].id

\* C27: filterRunsByDailyRetention returns a partition of its input: each
\* candidate is in exactly one of runsToDelete and runsToRetain, once, and
\* nothing else is; an empty list gives two empty lists.
C27_DailyIsPartition ==
  \A n \in 1..Len(passes) :
    LET p == passes[n]
    IN  cfg.useDailyRetention =>
          /\ noDuplicates(p.runsToDelete \o p.runsToRetain)
          /\ range(p.runsToDelete) \cup range(p.runsToRetain) = range(p.candidates)
          /\ Len(p.runsToDelete) + Len(p.runsToRetain) = Len(p.candidates)
          /\ p.candidates = <<>> => (p.runsToDelete = <<>> /\ p.runsToRetain = <<>>)

\* With keep_minimum_runs and retain_days positive, the candidates held a
\* run without created_at and a run whose created_at is no date, both
\* deleted, and a run that was retained; the other workflow had no run.
C27_Witness ==
  /\ pc = "done"
  /\ cfg.useDailyRetention
  /\ gtZero(cfg.keepMinimumRuns)
  /\ gtZero(cfg.retainDays)
  /\ \E n \in 1..Len(passes) :
       /\ \E i \in range(passes[n].runsToDelete) : run(i).created_at = NoCreatedAt
       /\ \E i \in range(passes[n].runsToDelete) : run(i).created_at = InvalidCreatedAt
       /\ passes[n].runsToRetain # <<>>
  /\ \E n \in 1..Len(passes) : passes[n].candidates = <<>>

\* A request that met the secondary rate limit is not sent again.
secondaryNeverRetried ==
  request.limit = "secondary" => request.status = "failed"

\* C23: a request that hits the primary rate limit is retried at most once,
\* and a request that hits the secondary rate limit is never retried, only
\* warned about.
C23_PrimaryRetriedAtMostOnce ==
  /\ request.retryCount <= 1
  /\ secondaryNeverRetried

====
